---- MODULE Spec2Model ----
(***************************************************************************)
(* Ghirahim_Bot: a Twitch link-moderation bot.  The model covers the       *)
(* two-tier channel store (GhirahimDB: Redis in front of MongoDB), the     *)
(* link extraction, the chat commands and the per-message decision of      *)
(* GhirahimBot.  Every handler of the bot runs to completion before the    *)
(* next event is taken (single reactor thread), so each handler is one     *)
(* action.  An exception raised inside a handler ends the handler; what    *)
(* it wrote before the exception stays written.                            *)
(***************************************************************************)
EXTENDS Integers, Sequences, FiniteSets, TLC

VARIABLES
    mongo,    \* MongoDB: the collection "channels"
    redis,    \* Redis: the channel, permit and cooldown keys
    joined,   \* GhirahimBot.joined_channels
    faults,   \* handler runs so far during which a store was unreachable
    last,     \* the record of the handler run that led to this state
    lastPut,  \* per channel: the Channel of the setChannel that was the
              \* last write to it, None after any other write
    fill,     \* per channel: the seconds left of the CacheTTL that began when
              \* getChannel last filled the cache from MongoDB (-1: they
              \* have passed; 0: the channel was written since, or never
              \* filled)
    since,    \* per channel: the seconds since setChannelCooldown was last
              \* called for it, -1 when it never was
    cmp       \* the last comparison of a UserRole made, and its result

vars == <<mongo, redis, joined, faults, last, lastPut, fill, since, cmp>>

(***************************************************************************)
(* Bounds of the model.                                                    *)
(***************************************************************************)
\* seconds that pass in one Tick
TickLen == 900
\* number of handler runs in which a store may be unreachable
MaxFaults == 1
\* the seconds of the short step of time
WaitLen == 100

(***************************************************************************)
(* Program constants.                                                      *)
(***************************************************************************)
\* redis.expire(..., 1800) in _setChannelRedis
CacheTTL == 1800
\* datetime.timedelta(minutes=5) of issuePermit
PermitTTL == 300
\* datetime.timedelta(minutes=5) of setChannelCooldown
CooldownTTL == 300

(***************************************************************************)
(* Optional values: Python's None is the empty sequence, a value v is <<v>>.*)
(***************************************************************************)
None == <<>>
Some(v) == <<v>>

(***************************************************************************)
(* UserRole                                                                *)
(***************************************************************************)
USER == 0
SUBSCRIBER == 1
VIP == 2
MODERATOR == 3
BROADCASTER == 4
UserRole == USER..BROADCASTER
\* what UserRole.fromStr returns for a string that names no role (Python None)
NoRole == -1

\* UserRole.__str__ (and str(None) for the value fromStr gives an unknown name)
RoleStr(r) ==
    CASE r = USER -> "USER"
      [] r = SUBSCRIBER -> "SUBSCRIBER"
      [] r = VIP -> "VIP"
      [] r = MODERATOR -> "MODERATOR"
      [] r = BROADCASTER -> "BROADCASTER"
      [] OTHER -> "None"

\* str.upper() on the words the model uses
Upper(s) ==
    CASE s = "user" -> "USER"
      [] s = "subscriber" -> "SUBSCRIBER"
      [] s = "vip" -> "VIP"
      [] s = "moderator" -> "MODERATOR"
      [] s = "broadcaster" -> "BROADCASTER"
      [] s = "admin" -> "ADMIN"
      [] OTHER -> s

\* str.casefold() on the words the model uses
Casefold(s) ==
    CASE s = "USER" -> "user"
      [] s = "SUBSCRIBER" -> "subscriber"
      [] s = "VIP" -> "vip"
      [] s = "MODERATOR" -> "moderator"
      [] s = "BROADCASTER" -> "broadcaster"
      [] s = "Hi __user__" -> "hi __user__"
      [] OTHER -> s

\* fromStr that takes a name it does not know for USER
fromStrLenient(string) ==
    LET u == Upper(string) IN
    CASE u = "SUBSCRIBER" -> SUBSCRIBER
      [] u = "VIP" -> VIP
      [] u = "MODERATOR" -> MODERATOR
      [] u = "BROADCASTER" -> BROADCASTER
      [] OTHER -> USER

\* UserRole.fromStr
fromStr(string) ==
    LET u == Upper(string) IN
    CASE u = "USER" -> USER
      [] u = "SUBSCRIBER" -> SUBSCRIBER
      [] u = "VIP" -> VIP
      [] u = "MODERATOR" -> MODERATOR
      [] u = "BROADCASTER" -> BROADCASTER
      [] OTHER -> NoRole

\* UserRole.__gt__ and the __ge__ that functools.total_ordering derives from
\* it and __eq__
RoleGt(a, b) == a > b
\* the gate written with > where the code has >=
RoleGeStrict(a, b) == RoleGt(a, b)
RoleGe(a, b) == RoleGt(a, b) \/ a = b

\* str(bool) and the test  hget(...) == b"True"
BoolStr(b) == IF b THEN "True" ELSE "False"

(***************************************************************************)
(* The comparisons of UserRole as Python evaluates them.  An operand is a  *)
(* UserRole or an int, [cls, value]; a method returns "True", "False" or   *)
(* "NotImplemented", a comparison "True", "False" or "TypeError".          *)
(***************************************************************************)
Operands == [cls : {"UserRole", "int"}, value : UserRole]
CompareOps == {"<", "<=", ">", ">=", "=="}

\* UserRole.__gt__ (lines 32-35) and UserRole.__eq__ (lines 37-40)
UserRole_gt(self, other) ==
    IF self.cls = other.cls THEN BoolStr(self.value > other.value)
    ELSE "NotImplemented"
UserRole_eq(self, other) ==
    IF self.cls = other.cls THEN BoolStr(self.value = other.value)
    ELSE "False"

\* the methods @total_ordering (line 21) adds, from __gt__ and __eq__
UserRole_ge(self, other) ==
    IF UserRole_gt(self, other) = "NotImplemented" THEN "NotImplemented"
    ELSE BoolStr(UserRole_gt(self, other) = "True"
                   \/ UserRole_eq(self, other) = "True")
UserRole_lt(self, other) ==
    IF UserRole_gt(self, other) = "NotImplemented" THEN "NotImplemented"
    ELSE BoolStr(UserRole_gt(self, other) = "False"
                   /\ UserRole_eq(self, other) = "False")
UserRole_le(self, other) ==
    IF UserRole_gt(self, other) = "NotImplemented" THEN "NotImplemented"
    ELSE BoolStr(UserRole_gt(self, other) = "False")

\* self.__op__(other); an int knows no UserRole
Method(op, self, other) ==
    IF self.cls # "UserRole" THEN "NotImplemented"
    ELSE CASE op = ">" -> UserRole_gt(self, other)
           [] op = ">=" -> UserRole_ge(self, other)
           [] op = "<" -> UserRole_lt(self, other)
           [] op = "<=" -> UserRole_le(self, other)
           [] OTHER -> UserRole_eq(self, other)

Reflected(op) ==
    CASE op = ">" -> "<" [] op = "<" -> ">" [] op = ">=" -> "<="
      [] op = "<=" -> ">=" [] OTHER -> "=="

\* a op b: the method of a, then the reflected method of b; when both
\* decline, == compares identities and an ordering raises TypeError
Compare(op, a, b) ==
    IF Method(op, a, b) # "NotImplemented" THEN Method(op, a, b)
    ELSE IF Method(Reflected(op), b, a) # "NotImplemented"
    THEN Method(Reflected(op), b, a)
    ELSE IF op = "==" THEN "False" ELSE "TypeError"
IsTrueStr(s) == s = "True"

(***************************************************************************)
(* Names.  The bot's own channel is Username; AllNames are the channels    *)
(* that can be moderated; Users are the chatters a permit can name.        *)
(***************************************************************************)
Username == "ghirahim"
AllNames == {"a", "b"}
Users == {"u"}

Range(s) == {s[i] : i \in DOMAIN s}

\* every listing of the set S without repetition (the orders in which
\* iterating a Redis set reply can yield its members)
Orders(S) == {o \in [1..Cardinality(S) -> S] : Range(o) = S}

(***************************************************************************)
(* Channel                                                                 *)
(***************************************************************************)
\* Channel.__init__: the attributes it sets.  dot is the attribute that only
\* the "!links dot" command assigns: None while the object has no such
\* attribute.
Channel(name, slash, subdomains, userlevel, reply, allow_list) ==
    [name |-> name, slash |-> slash, subdomains |-> subdomains,
     userlevel |-> userlevel, reply |-> reply, allow_list |-> allow_list,
     dot |-> None]

\* Channel.fromDefaults
fromDefaults(name) == Channel(name, TRUE, TRUE, VIP, "default", <<>>)

\* Channel.toDict
toDict(c) ==
    [name |-> c.name, slash |-> c.slash, subdomains |-> c.subdomains,
     userlevel |-> RoleStr(c.userlevel), reply |-> c.reply,
     allow_list |-> c.allow_list]

\* Channel.fromDict
fromDict(d) ==
    Channel(d.name, d.slash, d.subdomains, fromStr(d.userlevel), d.reply,
            d.allow_list)

(***************************************************************************)
(* GhirahimDB.  mongo maps a channel name to its document (None: no        *)
(* document).  redis holds, per channel, the hash channel:<name>:config    *)
(* and the set channel:<name>:allowlist, each with the seconds it has left *)
(* to live, and the permit:* and cooldown:* keys.  A Redis set with no     *)
(* member does not exist as a key.                                         *)
(***************************************************************************)
Lookup(f, k, dflt) == IF k \in DOMAIN f THEN f[k] ELSE dflt

\* redis.exists(config key, allowlist key): how many of the two exist
ExistsCount(r, name) ==
    (IF Lookup(r.config, name, None) # None THEN 1 ELSE 0)
    + (IF Lookup(r.allowlist, name, {}) # {} THEN 1 ELSE 0)

\* GhirahimDB._getChannelRedis; ord is the order in which smembers yields
\* the allow list
getChannelRedis(r, name, ord) ==
    IF ExistsCount(r, name) < 2 THEN None
    ELSE LET h == r.config[name][1]
             slash == IsTrueStr(h.slash)
             subdomains == IsTrueStr(h.subdomains)
             userlevel == fromStr(Upper(h.userlevel))
             reply == h.reply
         IN  Some(Channel(name, slash, subdomains, userlevel, reply, ord))

\* GhirahimDB._getChannelMongo
getChannelMongo(m, name) ==
    LET chan == Lookup(m, name, None) IN
    IF chan = None THEN None ELSE Some(fromDict(chan[1]))

\* GhirahimDB._setChannelRedis
setChannelRedis(r, channel) ==
    LET slashStr == BoolStr(channel.slash)
        roleStr == RoleStr(channel.userlevel)
        n == channel.name
        members == Range(channel.allow_list)
    IN  [r EXCEPT
           !.config[n] = Some([name |-> n, slash |-> slashStr,
                               subdomains |-> slashStr, userlevel |-> roleStr,
                               reply |-> channel.reply]),
           !.allowlist[n] = members,
           !.cttl[n] = CacheTTL,
           !.attl[n] = IF members = {} THEN 0 ELSE CacheTTL]

\* GhirahimDB._setChannelMongo
setChannelMongo(m, channel) ==
    [m EXCEPT ![channel.name] = Some(toDict(channel))]

\* delChannel that leaves the keys of the channel in Redis
delChannelRedisKept(r, name) == r

\* redis.delete of the two keys of a channel (delChannel, first statement)
delChannelRedis(r, name) ==
    IF name \in AllNames
    THEN [r EXCEPT !.config[name] = None, !.allowlist[name] = {},
                   !.cttl[name] = 0, !.attl[name] = 0]
    ELSE r

\* delChannel that leaves the document in MongoDB
delChannelMongoKept(m, name) == m

\* delete_one({"name": channel}) (delChannel, second statement)
delChannelMongo(m, name) ==
    IF name \in AllNames THEN [m EXCEPT ![name] = None] ELSE m

(***************************************************************************)
(* One run of a handler.  run.ok turns FALSE when a statement raises; the  *)
(* statements after it are then skipped.  f tells which of the two stores  *)
(* can be reached during the run: a call to a store that cannot be reached *)
(* raises (pymongo / redis-py raise a connection error; no caller catches  *)
(* it).  out lists what the run has handed to the IRC connection, reads    *)
(* counts the reads of MongoDB, filled tells that getChannel has written   *)
(* the cache, wr counts the calls of setChannel and delChannel, puts lists *)
(* the channels setChannel has written to both stores, wfail tells that a  *)
(* setChannel or delChannel raised.                                        *)
(***************************************************************************)
Begin ==
    [ok |-> TRUE, mongo |-> mongo, redis |-> redis, out |-> <<>>,
     reads |-> 0, filled |-> FALSE, wr |-> 0, puts |-> <<>>,
     wfail |-> FALSE]

Raise(run) == [run EXCEPT !.ok = FALSE]
RaiseInWrite(run) == [run EXCEPT !.ok = FALSE, !.wfail = TRUE]

AllUp == [mongoOk |-> TRUE, mongoWr |-> TRUE, redisOk |-> TRUE]

\* GhirahimDB.getChannel: [run, val]
getChannel(run, f, name, ord) ==
    IF ~run.ok THEN [run |-> run, val |-> None]
    ELSE IF ~f.redisOk THEN [run |-> Raise(run), val |-> None]
    ELSE LET channel == getChannelRedis(run.redis, name, ord) IN
         IF channel # None THEN [run |-> run, val |-> channel]
         ELSE IF ~f.mongoOk THEN [run |-> Raise(run), val |-> None]
         ELSE LET m == getChannelMongo(run.mongo, name)
                  r1 == [run EXCEPT !.reads = @ + 1]
              IN  IF m # None
                  THEN [run |-> [r1 EXCEPT !.redis = setChannelRedis(@, m[1]),
                                           !.filled = TRUE],
                        val |-> m]
                  ELSE [run |-> r1, val |-> None]

\* GhirahimDB.setChannel
setChannel(run, f, channel) ==
    IF ~run.ok THEN run
    ELSE IF ~f.redisOk THEN RaiseInWrite([run EXCEPT !.wr = @ + 1])
    ELSE LET r1 == [run EXCEPT !.redis = setChannelRedis(@, channel),
                               !.wr = @ + 1] IN
         IF ~f.mongoWr THEN RaiseInWrite(r1)
         ELSE [r1 EXCEPT !.mongo = setChannelMongo(@, channel),
                         !.puts = Append(@, channel)]

\* delChannel that deletes the keys and the document of every channel
delChannelEvery(run, f, name) ==
    IF ~run.ok THEN run
    ELSE IF ~f.redisOk THEN RaiseInWrite([run EXCEPT !.wr = @ + 1])
    ELSE LET r1 == [run EXCEPT
                      !.redis = delChannelRedis(delChannelRedis(@, "a"), "b"),
                      !.wr = @ + 1] IN
         IF ~f.mongoWr THEN RaiseInWrite(r1)
         ELSE [r1 EXCEPT !.mongo = [n \in AllNames |-> None]]

\* GhirahimDB.delChannel
delChannel(run, f, name) ==
    IF ~run.ok THEN run
    ELSE IF ~f.redisOk THEN RaiseInWrite([run EXCEPT !.wr = @ + 1])
    ELSE LET r1 == [run EXCEPT !.redis = delChannelRedis(@, name),
                               !.wr = @ + 1] IN
         IF ~f.mongoWr THEN RaiseInWrite(r1)
         ELSE [r1 EXCEPT !.mongo = delChannelMongo(@, name)]

\* GhirahimDB.issuePermit
issuePermit(run, f, channel, username) ==
    IF ~run.ok THEN run
    ELSE IF ~f.redisOk THEN Raise(run)
    ELSE [run EXCEPT !.redis.permit[<<channel.name, username>>] = PermitTTL]

\* GhirahimDB.checkPermit
checkPermit(r, channel, username) ==
    Lookup(r.permit, <<channel.name, username>>, 0) > 0

\* setChannelCooldown with one key for all channels
setChannelCooldownShared(run, f, channel) ==
    IF ~run.ok THEN run
    ELSE IF ~f.redisOk THEN Raise(run)
    ELSE [run EXCEPT !.redis.cooldown =
                        [n \in DOMAIN @ |-> CooldownTTL]]

\* GhirahimDB.setChannelCooldown
setChannelCooldown(run, f, channel) ==
    IF ~run.ok THEN run
    ELSE IF ~f.redisOk THEN Raise(run)
    ELSE [run EXCEPT !.redis.cooldown[channel] = CooldownTTL]

\* GhirahimDB.checkChannelCooldown
checkChannelCooldown(r, channel) == Lookup(r.cooldown, channel, 0) > 0

(***************************************************************************)
(* What the bot hands to the IRC connection.                               *)
(***************************************************************************)
Privmsg(target, text) == [op |-> "privmsg", target |-> target, text |-> text]
JoinReq(target) == [op |-> "join", target |-> target, text |-> ""]
PartReq(target) == [op |-> "part", target |-> target, text |-> ""]

Emit(run, x) == IF ~run.ok THEN run ELSE [run EXCEPT !.out = Append(@, x)]

\* send_privmsg without the look at the cooldown of the channel
send_privmsgUnchecked(run, f, target, message) ==
    IF ~run.ok THEN run ELSE Emit(run, Privmsg(target, message))

\* GhirahimBot.send_privmsg; target is the channel without its '#'
send_privmsg(run, f, target, message) ==
    IF ~run.ok THEN run
    ELSE IF ~f.redisOk THEN Raise(run)
    ELSE IF ~checkChannelCooldown(run.redis, target)
         THEN Emit(run, Privmsg(target, message))
         ELSE run

(***************************************************************************)
(* Text.  A chat message is the sequence of its space-separated words.     *)
(* The words whose characters the code looks at (links, allow-list         *)
(* entries) are spelled out as sequences of characters by Chars.           *)
(***************************************************************************)
Chars(w) ==
    CASE w = "e.c" -> <<"e", ".", "c">>
      [] w = "s.e.c" -> <<"s", ".", "e", ".", "c">>
      [] w = "h://s.e.c/p" ->
            <<"h", ":", "/", "/", "s", ".", "e", ".", "c", "/", "p">>
      [] w = "a/o" -> <<"a", "/", "o">>
      [] w = "*:e" -> <<"*", ":", "e">>
      [] w = "/e/" -> <<"/", "e", "/">>
      [] w = "/(x+)+y/" -> <<"/", "(", "x", "+", ")", "+", "y", "/">>
      [] w = "(x+)+y" -> <<"(", "x", "+", ")", "+", "y">>
      [] w = "e" -> <<"e">>
      [] w = "hi" -> <<"h", "i">>
      [] OTHER -> <<w>>

\* the words with a leading '!'
BangWords == {"!links", "!permit", "!join", "!leave", "!x"}

\* Python's  a in b  on strings, and str.count of one character
IsSub(a, b) ==
    \E i \in 0..(Len(b) - Len(a)) : SubSeq(b, i + 1, i + Len(a)) = a
CountChar(ch, b) == Cardinality({i \in DOMAIN b : b[i] = ch})

\* URLExtract.find_urls: the words of the message that are links
LinkWords == {"e.c", "s.e.c", "h://s.e.c/p"}
find_urls(message) ==
    SelectSeq(message, LAMBDA w : w \in LinkWords)

\*  "/" in message
HasSlash(message) == \E i \in DOMAIN message : IsSub(<<"/">>, Chars(message[i]))

\* self.urlregex.match(url): ^[a-zA-Z0-9]+://  (Alnum: the letters and
\* digits among the characters of the model)
Alnum == {"a", "c", "e", "h", "i", "o", "p", "s", "x", "y"}
SchemeEnd(u) ==
    {i \in 1..(Len(u) - 3) :
        /\ \A j \in 1..i : u[j] \in Alnum
        /\ u[i + 1] = ":" /\ u[i + 2] = "/" /\ u[i + 3] = "/"}

\* urllib.parse.urlparse(url).netloc after the "//" + url of line 208: the
\* text between the "//" and the next "/", "?" or "#"
netloc(u) ==
    LET rest == IF SchemeEnd(u) = {} THEN u
                ELSE LET i == CHOOSE i \in SchemeEnd(u) : TRUE
                     IN  SubSeq(u, i + 4, Len(u))
        stops == {i \in DOMAIN rest : rest[i] \in {"/", "?", "#"}}
    IN  IF stops = {} THEN rest
        ELSE SubSeq(rest, 1, (CHOOSE i \in stops : \A j \in stops : i <= j) - 1)

\* regex.compile(p).findall(url, timeout=0.1): "match", "nomatch" or
\* "timeout".  The nested-quantifier pattern backtracks past the budget on
\* every candidate; the other patterns are literals.
RegexRun(pattern, u) ==
    IF pattern = "(x+)+y" THEN "timeout"
    ELSE IF IsSub(Chars(pattern), u) THEN "match" ELSE "nomatch"

\* item[0] == '/' and item[-1] == '/'
IsRegexItem(item) ==
    Chars(item)[1] = "/" /\ Chars(item)[Len(Chars(item))] = "/"
\* regex[1:-1]
Strip(item) ==
    CASE item = "/e/" -> "e"
      [] item = "/(x+)+y/" -> "(x+)+y"
      [] OTHER -> item

\* list.remove(x): the list without its first x; None when x is not in it
\* (ValueError)
ListRemove(l, x) ==
    IF x \notin Range(l) THEN None
    ELSE LET k == CHOOSE i \in DOMAIN l :
                     l[i] = x /\ \A j \in DOMAIN l : l[j] = x => i <= j
         IN  Some(SubSeq(l, 1, k - 1) \o SubSeq(l, k + 1, Len(l)))

(***************************************************************************)
(* GhirahimBot.extract_urls                                                *)
(***************************************************************************)
RECURSIVE RegexLoop(_, _, _, _, _, _)
\* lines 195-205: the regex entries of the (live) allow list against one
\* candidate; i is the position of the list iterator.  [run, chan, allowed]
RegexLoop(run, f, chan, u, i, allowed) ==
    IF ~run.ok \/ i > Len(chan.allow_list)
    THEN [run |-> run, chan |-> chan, allowed |-> allowed]
    ELSE LET item == chan.allow_list[i] IN
         IF ~IsRegexItem(item) THEN RegexLoop(run, f, chan, u, i + 1, allowed)
         ELSE LET regex == Strip(item)
                  res == RegexRun(regex, u)
              IN  IF res = "match" THEN RegexLoop(run, f, chan, u, i + 1, TRUE)
                  ELSE IF res = "nomatch"
                  THEN RegexLoop(run, f, chan, u, i + 1, allowed)
                  ELSE LET rem == ListRemove(chan.allow_list, regex) IN
                       IF rem = None
                       THEN [run |-> Raise(run), chan |-> chan,
                             allowed |-> allowed]
                       ELSE LET chan2 == [chan EXCEPT !.allow_list = rem[1]]
                                run2 == send_privmsg(setChannel(run, f, chan2),
                                                     f, chan.name, "regex removed")
                            IN  RegexLoop(run2, f, chan2, u, i + 1, allowed)

\* line 206
CountsAsLink(slash, dot, message, u) ==
    \/ slash /\ HasSlash(message)
    \/ dot /\ CountChar(".", u) > 1
    \/ ~slash

\* lines 210-218
AllowedByList(allow_list, subdomains, domain) ==
    \/ \E i \in DOMAIN allow_list :
          /\ Chars(allow_list[i])[1] = "*"
          /\ IsSub(SubSeq(Chars(allow_list[i]), 3, Len(Chars(allow_list[i]))),
                   domain)
    \/ IF subdomains
       THEN \E i \in DOMAIN allow_list : IsSub(Chars(allow_list[i]), domain)
       ELSE \E i \in DOMAIN allow_list : Chars(allow_list[i]) = domain

RECURSIVE UrlLoop(_, _, _, _, _, _, _, _, _, _)
\* lines 193-220: the candidates from the k-th on.  [run, chan, domains]
UrlLoop(run, f, chan, slash, dot, subdomains, message, urls, k, domains) ==
    IF ~run.ok \/ k > Len(urls)
    THEN [run |-> run, chan |-> chan, domains |-> domains]
    ELSE LET u == Chars(urls[k])
             rx == RegexLoop(run, f, chan, u, 1, FALSE)
         IN  IF ~rx.run.ok
             THEN [run |-> rx.run, chan |-> rx.chan, domains |-> domains]
             ELSE IF CountsAsLink(slash, dot, message, u)
             THEN LET domain == netloc(u)
                      allowed == rx.allowed \/ AllowedByList(rx.chan.allow_list,
                                                             subdomains, domain)
                  IN  UrlLoop(rx.run, f, rx.chan, slash, dot, subdomains,
                              message, urls, k + 1,
                              IF allowed THEN domains ELSE domains \cup {domain})
             ELSE UrlLoop(rx.run, f, rx.chan, slash, dot, subdomains, message,
                          urls, k + 1, domains)

\* extract_urls: [run, chan, domains].  Line 187 reads chan.dot, an
\* attribute that Channel.__init__ does not set: on a Channel without it the
\* read raises AttributeError.
extract_urls(run, f, message, chan) ==
    IF ~run.ok THEN [run |-> run, chan |-> chan, domains |-> {}]
    ELSE IF chan.dot = None
    THEN [run |-> Raise(run), chan |-> chan, domains |-> {}]
    ELSE UrlLoop(run, f, chan, chan.slash, chan.dot[1], chan.subdomains,
                 message, find_urls(message), 1, {})

(***************************************************************************)
(* GhirahimBot.parse_badges: badges is None or the list of the badge names *)
(* of the tag (its "name/version" items, split at ",").                    *)
(***************************************************************************)
BadgeRole(badge, role) ==
    CASE badge = "broadcaster" -> BROADCASTER
      [] badge = "moderator" -> MODERATOR
      [] badge = "vip" -> VIP
      [] badge = "subscriber" -> SUBSCRIBER
      [] OTHER -> role

RECURSIVE BadgeLoop(_, _, _)
BadgeLoop(badges, i, role) ==
    IF i > Len(badges) THEN role
    ELSE LET new == BadgeRole(badges[i], role) IN
         BadgeLoop(badges, i + 1, IF RoleGt(new, role) THEN new ELSE role)

parse_badges(badges) ==
    IF badges = None THEN USER ELSE BadgeLoop(badges[1], 1, USER)

\* GhirahimBot.get_reply: None when the replies are off, else which text
get_reply(chan) ==
    IF Casefold(chan.reply) = "off" THEN None
    ELSE IF Casefold(chan.reply) = "default" THEN Some("default reply")
    ELSE Some(chan.reply)

(***************************************************************************)
(* GhirahimBot.chat_command.  args are the words of the message, nick the  *)
(* sender, chan the Channel that pubmsg_otherchannel read.  [run, cmd]:    *)
(* cmd names the case that matched, "none" when no case did.               *)
(***************************************************************************)
Tail2(ws) == SubSeq(ws, 3, Len(ws))

RECURSIVE AppendAll(_, _, _)
\* the loop of "allow" without its test  domain not in chan.allow_list
AppendAll(l, domains, i) ==
    IF i > Len(domains) THEN l
    ELSE AppendAll(Append(l, domains[i]), domains, i + 1)

RECURSIVE AppendNew(_, _, _)
\* lines 268-270
AppendNew(l, domains, i) ==
    IF i > Len(domains) THEN l
    ELSE AppendNew(IF domains[i] \in Range(l) THEN l ELSE Append(l, domains[i]),
                   domains, i + 1)

RECURSIVE RemoveAll(_, _, _)
\* lines 276-278
RemoveAll(l, domains, i) ==
    IF i > Len(domains) THEN l
    ELSE RemoveAll(IF domains[i] \in Range(l) THEN ListRemove(l, domains[i])[1]
                   ELSE l, domains, i + 1)

\* " ".join(joined_args.split()[2:]) for the replies of the model (one word)
JoinWords(ws) == IF Len(ws) = 1 THEN ws[1] ELSE "several words"

Done(run, cmd) == [run |-> run, cmd |-> cmd]

\* a setter case: assign, setChannel, confirm
SetAndConfirm(run, f, target, chan, text, cmd) ==
    Done(send_privmsg(setChannel(run, f, chan), f, target, text), cmd)

\* the cases of one boolean option (slash, dot, subdomains)
TrueWords == {"true", "yes"}
FalseWords == {"false", "no"}

chat_command(run, f, target, args, chan) ==
    LET cf == [i \in DOMAIN args |-> Casefold(args[i])]
        n == Len(cf)
        w1 == IF n >= 1 THEN cf[1] ELSE ""
        w2 == IF n >= 2 THEN cf[2] ELSE ""
        w3 == IF n >= 3 THEN cf[3] ELSE ""
        links == w1 = "!links"
    IN
    IF w1 = "!permit" /\ n = 2
    THEN LET user == IF w2 = "@u" THEN "u" ELSE w2 IN
         Done(send_privmsg(issuePermit(run, f, chan, user), f, target,
                           "permit"), "permit")
    ELSE IF links /\ w2 \in {"allow", "add"} /\ n > 2
    THEN SetAndConfirm(run, f, target,
            [chan EXCEPT !.allow_list = AppendNew(@, Tail2(cf), 1)],
            "new allow list", "allow")
    ELSE IF links /\ w2 \in {"deny", "del", "remove"} /\ n > 2
    THEN SetAndConfirm(run, f, target,
            [chan EXCEPT !.allow_list = RemoveAll(@, Tail2(cf), 1)],
            "new allow list", "deny")
    ELSE IF links /\ w2 = "list" /\ n = 2
    THEN Done(send_privmsg(send_privmsg(run, f, target, "allow list"), f,
                           target, "current reply"), "list")
    ELSE IF links /\ w2 = "slash" /\ n = 3 /\ w3 \in TrueWords
    THEN SetAndConfirm(run, f, target, [chan EXCEPT !.slash = TRUE],
                       "slash enabled", "slash")
    ELSE IF links /\ w2 = "slash" /\ n = 3 /\ w3 \in FalseWords
    THEN SetAndConfirm(run, f, target, [chan EXCEPT !.slash = FALSE],
                       "slash disabled", "slash")
    ELSE IF links /\ w2 = "slash" /\ n = 2
    THEN Done(send_privmsg(run, f, target, "slash currently"), "slash?")
    ELSE IF links /\ w2 = "dot" /\ n = 3 /\ w3 \in TrueWords
    THEN SetAndConfirm(run, f, target, [chan EXCEPT !.dot = Some(TRUE)],
                       "dot enabled", "dot")
    ELSE IF links /\ w2 = "dot" /\ n = 3 /\ w3 \in FalseWords
    THEN SetAndConfirm(run, f, target, [chan EXCEPT !.dot = Some(FALSE)],
                       "dot disabled", "dot")
    ELSE IF links /\ w2 = "dot" /\ n = 2
    THEN \* the guard "if chan.dot" reads the attribute
         IF chan.dot = None THEN Done(Raise(run), "dot?")
         ELSE Done(send_privmsg(run, f, target, "dot currently"), "dot?")
    ELSE IF links /\ w2 = "subdomains" /\ n = 3 /\ w3 \in TrueWords
    THEN SetAndConfirm(run, f, target, [chan EXCEPT !.subdomains = TRUE],
                       "subdomains enabled", "subdomains")
    ELSE IF links /\ w2 = "subdomains" /\ n = 3 /\ w3 \in FalseWords
    THEN SetAndConfirm(run, f, target, [chan EXCEPT !.subdomains = FALSE],
                       "subdomains disabled", "subdomains")
    ELSE IF links /\ w2 = "subdomains" /\ n = 2
    THEN Done(send_privmsg(run, f, target, "subdomains currently"),
              "subdomains?")
    ELSE IF links /\ w2 = "role" /\ n = 3 /\ fromStr(w3) # NoRole
    THEN SetAndConfirm(run, f, target, [chan EXCEPT !.userlevel = fromStr(w3)],
                       "role set", "role")
    ELSE IF links /\ w2 = "role" /\ n = 2
    THEN Done(send_privmsg(run, f, target, "role is"), "role?")
    ELSE IF links /\ w2 = "reply" /\ n > 2
    THEN LET chan2 == [chan EXCEPT !.reply = JoinWords(Tail2(args))]
             sent == IF get_reply(chan2) = None
                     THEN send_privmsg(run, f, target, "replies disabled")
                     ELSE send_privmsg(run, f, target, "new reply")
         IN  Done(setChannel(sent, f, chan2), "reply")
    ELSE IF links /\ w2 = "reply" /\ n = 2
    THEN Done(send_privmsg(run, f, target, "current reply"), "reply?")
    ELSE IF links /\ w2 = "test" /\ n > 2
    THEN LET x == extract_urls(run, f, Tail2(args), chan) IN
         Done(send_privmsg(x.run, f, target,
                           IF x.domains # {} THEN "would delete"
                           ELSE "would not delete"), "test")
    ELSE Done(run, "none")

\* the texts that confirm a change of the configuration
ConfirmTexts ==
    {"new allow list", "slash enabled", "slash disabled", "dot enabled",
     "dot disabled", "subdomains enabled", "subdomains disabled", "role set",
     "replies disabled", "new reply"}

(***************************************************************************)
(* The handlers.  Each returns the record of its run: run (stores, output),*)
(* gate (the branch of the decision it took) and cmd.                      *)
(***************************************************************************)
Handled(run, gate, cmd, role) ==
    [run |-> run, gate |-> gate, cmd |-> cmd, role |-> role]

\* GhirahimBot.pubmsg_otherchannel run on the stores of start; target is
\* e.target without its '#'
pubmsg_otherchannelOn(start, f, target, badges, args, ord) ==
    LET g == getChannel(start, f, target, ord)
        role == parse_badges(badges)
    IN
    IF ~g.run.ok THEN Handled(g.run, "lookup", "none", role)
    ELSE IF g.val = None
    THEN Handled(Emit(g.run, PartReq(target)), "absent", "none", role)
    ELSE LET chan == g.val[1] IN
         IF RoleGe(role, MODERATOR)
         THEN IF args[1] \in BangWords
              THEN LET c == chat_command(g.run, f, target, args, chan) IN
                   Handled(c.run, "command", c.cmd, role)
              ELSE Handled(g.run, "mod", "none", role)
         ELSE IF RoleGe(role, chan.userlevel)
         THEN Handled(g.run, "exempt", "none", role)
         ELSE LET x == extract_urls(g.run, f, args, chan)
                  del == send_privmsg(x.run, f, target, "/delete")
                  reply == get_reply(chan)
              IN  IF x.domains # {}
                  THEN Handled(IF reply # None
                               THEN send_privmsg(del, f, target, "reply")
                               ELSE del, "check", "none", role)
                  ELSE Handled(x.run, "check", "none", role)

\* GhirahimBot.pubmsg_otherchannel on the stores as they are
pubmsg_otherchannel(f, target, badges, args, ord) ==
    pubmsg_otherchannelOn(Begin, f, target, badges, args, ord)

\* GhirahimBot.pubmsg_ownchannel; nick is e.source.nick, text the message
\* after lower().strip()
pubmsg_ownchannel(f, nick, text, ord) ==
    LET g == getChannel(Begin, f, nick, ord) IN
    IF text = "!join"
    THEN IF ~g.run.ok THEN Handled(g.run, "lookup", "join", NoRole)
         ELSE IF g.val = None
         THEN LET newChan == fromDefaults(nick)
                  r1 == Emit(setChannel(g.run, f, newChan), JoinReq(newChan.name))
              IN  Handled(send_privmsg(r1, f, Username, "joined"), "own",
                          "join", NoRole)
         ELSE IF nick \notin joined
         THEN Handled(Emit(g.run, JoinReq(nick)), "own", "join", NoRole)
         ELSE Handled(g.run, "own", "join", NoRole)
    ELSE IF text = "!leave"
    THEN IF ~g.run.ok THEN Handled(g.run, "lookup", "leave", NoRole)
         ELSE IF g.val # None
         THEN Handled(Emit(delChannel(g.run, f, nick), PartReq(nick)), "own",
                      "leave", NoRole)
         ELSE IF nick \in joined
         THEN Handled(Emit(g.run, PartReq(nick)), "own", "leave", NoRole)
         ELSE Handled(g.run, "own", "leave", NoRole)
    ELSE Handled(Begin, "own", "none", NoRole)

\* e.target of a notice: the channel with its '#'
Hash(n) == CASE n = "a" -> "#a" [] n = "b" -> "#b" [] OTHER -> "#ghirahim"

\* the lists of ghirahim_utils, as classes of the msg-id of a notice
NoticeClasses == {"ignore", "cooldown", "leave", "unknown"}

\* GhirahimBot.on_pubnotice; target is e.target without its '#'
on_pubnotice(f, target, class, ord) ==
    IF class = "cooldown"
    THEN Handled(setChannelCooldown(Begin, f, target), "notice", "cooldown",
                 NoRole)
    ELSE IF class = "leave"
    THEN LET g == getChannel(Begin, f, Hash(target), ord) IN
         IF ~g.run.ok THEN Handled(g.run, "lookup", "leave", NoRole)
         ELSE IF g.val # None
         THEN Handled(Emit(delChannel(g.run, f, Hash(target)), PartReq(target)),
                      "notice", "leave", NoRole)
         ELSE Handled(g.run, "notice", "leave", NoRole)
    ELSE Handled(Begin, "notice", "none", NoRole)

(***************************************************************************)
(* The inputs of the model.                                                *)
(***************************************************************************)
\* the channels that receive events
SpecNames == {"a"}

\* one badges tag per role, and a tag with two badges
BadgeInputs ==
    {None, Some(<<"subscriber">>), Some(<<"subscriber", "vip">>),
     Some(<<"moderator">>), Some(<<"broadcaster">>)}
ModBadges == {Some(<<"moderator">>)}

ChatMessages == {<<"hi">>, <<"e.c">>, <<"hi", "h://s.e.c/p">>}

\* the messages of the decision specification: chat, and the commands that
\* move the exempt role or the reply
GateMessages ==
    ChatMessages \cup
    {<<"!links", "role", "BROADCASTER">>, <<"!links", "role", "user">>,
     <<"!links", "role", "moderator">>, <<"!links", "role", "vip">>,
     <<"!links", "role", "admin">>, <<"!links", "role">>,
     <<"!links", "reply", "off">>, <<"!links", "test", "e.c">>, <<"!x">>,
     <<"!links", "allow", "e.c">>, <<"!links", "subdomains", "false">>}

\* the messages of the store specification: every command that writes
StoreMessages ==
    {<<"hi">>,
     <<"!links", "allow", "e.c">>, <<"!links", "add", "/e/", "e.c">>,
     <<"!links", "deny", "e.c">>,
     <<"!links", "slash", "no">>, <<"!links", "dot", "yes">>,
     <<"!links", "subdomains", "false">>,
     <<"!links", "role", "BROADCASTER">>,
     <<"!links", "reply", "hello">>}

\* the messages of the allow-list specification: entries added and removed,
\* once and twice, a regex entry that runs out of time and the plain entry
\* that spells its pattern, links and tests
ListBadges == {None, Some(<<"moderator">>)}
AllowMessages ==
    {<<"!links", "allow", "e.c">>, <<"!links", "add", "e.c", "e.c">>,
     <<"!links", "allow", "/(x+)+y/">>, <<"!links", "add", "(x+)+y", "e.c">>}
DenyMessages ==
    {<<"!links", "deny", "e.c">>, <<"!links", "remove", "e.c", "e.c">>,
     <<"!links", "del", "/(x+)+y/">>}
TestMessages == {<<"!links", "test", "e.c">>, <<"!links", "test", "hi">>}
ListMessages ==
    AllowMessages \cup DenyMessages \cup TestMessages \cup
    {<<"hi">>, <<"e.c">>}

\* the messages of the specification of the timed keys: chat, a link, and
\* commands that answer, among them the permit
TimedBadges == {None, Some(<<"moderator">>)}
TimedMessages ==
    {<<"hi">>, <<"h://s.e.c/p">>, <<"!links", "list">>, <<"!permit", "u">>,
     <<"!links", "allow", "e.c">>}

OwnTexts == {"!join", "!leave", "hi"}

\* which stores a handler run can reach
MongoDown == [mongoOk |-> FALSE, mongoWr |-> FALSE, redisOk |-> TRUE]
\* MongoDB answers the read of the handler and fails its write
MongoWriteDown == [mongoOk |-> TRUE, mongoWr |-> FALSE, redisOk |-> TRUE]
RedisDown == [mongoOk |-> TRUE, mongoWr |-> TRUE, redisOk |-> FALSE]
FaultChoices(faulty) ==
    IF faulty /\ faults < MaxFaults THEN {AllUp, MongoDown, MongoWriteDown, RedisDown}
    ELSE {AllUp}

(***************************************************************************)
(* State.                                                                  *)
(***************************************************************************)
NoEvent ==
    [kind |-> "init", target |-> "", role |-> NoRole, gate |-> "", cmd |-> "none",
     ok |-> TRUE, out |-> <<>>, reads |-> 0, f |-> AllUp, bang |-> FALSE,
     link |-> FALSE,
     level |-> NoRole, changed |-> FALSE, wr |-> 0, wfail |-> FALSE]

\* no comparison made yet
NoCompare ==
    [op |-> "", a |-> [cls |-> "", value |-> 0], b |-> [cls |-> "", value |-> 0],
     res |-> ""]

Init ==
    /\ mongo = [n \in AllNames |-> None]
    /\ redis = [config |-> [n \in AllNames |-> None],
                allowlist |-> [n \in AllNames |-> {}],
                cttl |-> [n \in AllNames |-> 0],
                attl |-> [n \in AllNames |-> 0],
                permit |-> [k \in AllNames \X Users |-> 0],
                cooldown |-> [n \in AllNames \cup {Username} |-> 0]]
    /\ joined = {}
    /\ faults = 0
    /\ last = NoEvent
    /\ lastPut = [n \in AllNames |-> None]
    /\ fill = [n \in AllNames |-> 0]
    /\ since = [n \in AllNames \cup {Username} |-> -1]
    /\ cmp = NoCompare

\* the userlevel getChannel would give for the channel, NoRole without one
LevelOf(name) ==
    LET g == getChannel(Begin, AllUp, name, <<>>) IN
    IF g.val = None THEN NoRole ELSE g.val[1].userlevel

\* the state after the run h of a handler for the channel name
Commit(h, kind, name, f, msg) ==
    /\ mongo' = h.run.mongo
    /\ redis' = h.run.redis
    /\ faults' = IF f = AllUp THEN faults ELSE faults + 1
    /\ last' = [kind |-> kind, target |-> name, role |-> h.role,
                gate |-> h.gate, cmd |-> h.cmd, ok |-> h.run.ok,
                out |-> h.run.out, reads |-> h.run.reads, f |-> f,
                bang |-> (msg # <<>> /\ msg[1] \in BangWords),
                link |-> (find_urls(msg) # <<>>), level |-> LevelOf(name),
                changed |-> (h.run.mongo # mongo \/ h.run.redis # redis),
                wr |-> h.run.wr, wfail |-> h.run.wfail]
    /\ lastPut' = IF h.run.wr = 0 \/ name \notin AllNames THEN lastPut
                  ELSE [lastPut EXCEPT ![name] =
                          IF h.run.wr = Len(h.run.puts)
                          THEN Some(h.run.puts[Len(h.run.puts)]) ELSE None]
    /\ fill' = IF name \notin AllNames THEN fill
               ELSE IF h.run.wr > 0 THEN [fill EXCEPT ![name] = 0]
               ELSE IF h.run.filled THEN [fill EXCEPT ![name] = CacheTTL]
               ELSE fill
    /\ since' = IF kind = "notice" /\ h.cmd = "cooldown" /\ h.run.ok
                THEN [since EXCEPT ![name] = 0] ELSE since
    /\ UNCHANGED cmp

(***************************************************************************)
(* Actions: one per event handler, and the passing of time.                *)
(***************************************************************************)
\* on_pubmsg for a channel other than the bot's own
PubMsg(Bs, Ms, faulty) ==
    \E n \in SpecNames, badges \in Bs, args \in Ms,
       f \in FaultChoices(faulty) :
      \E ord \in Orders(redis.allowlist[n]) :
        /\ Commit(pubmsg_otherchannel(f, n, badges, args, ord), "pubmsg", n, f,
                  args)
        /\ UNCHANGED joined

\* on_pubmsg for the bot's own channel
OwnMsg(faulty) ==
    \E nick \in SpecNames, text \in OwnTexts, f \in FaultChoices(faulty) :
      \E ord \in Orders(redis.allowlist[nick]) :
        /\ Commit(pubmsg_ownchannel(f, nick, text, ord), "ownmsg", nick, f,
                  <<text>>)
        /\ UNCHANGED joined

\* on_pubnotice
PubNotice(faulty) ==
    \E n \in SpecNames, class \in NoticeClasses, f \in FaultChoices(faulty) :
        /\ Commit(on_pubnotice(f, n, class, <<>>), "notice", n, f, <<class>>)
        /\ UNCHANGED joined

\* on_join for a JOIN of the bot itself
OnJoin ==
    \E n \in SpecNames \cup {Username} :
        /\ joined' = joined \cup {n}
        /\ last' = [NoEvent EXCEPT !.kind = "join", !.target = n]
        /\ UNCHANGED <<mongo, redis, faults, lastPut, fill, since, cmp>>

\* on_part for a PART of the bot itself from a channel it is in
OnPart ==
    \E n \in joined :
        /\ joined' = joined \ {n}
        /\ last' = [NoEvent EXCEPT !.kind = "part", !.target = n]
        /\ UNCHANGED <<mongo, redis, faults, lastPut, fill, since, cmp>>

\* TickLen seconds pass: Redis drops the keys whose time is up
Left(t) == IF t > TickLen THEN t - TickLen ELSE 0

\* what is left of t seconds after d of them, and the keys of Redis d seconds
\* later
LeftAfter(t, d) == IF t > d THEN t - d ELSE 0
Expire(r, d) ==
    [config |-> [n \in AllNames |->
                   IF LeftAfter(r.cttl[n], d) = 0 THEN None ELSE r.config[n]],
     allowlist |-> [n \in AllNames |->
                      IF LeftAfter(r.attl[n], d) = 0 THEN {}
                      ELSE r.allowlist[n]],
     cttl |-> [n \in AllNames |-> LeftAfter(r.cttl[n], d)],
     attl |-> [n \in AllNames |-> LeftAfter(r.attl[n], d)],
     permit |-> [k \in DOMAIN r.permit |-> LeftAfter(r.permit[k], d)],
     cooldown |-> [n \in DOMAIN r.cooldown |-> LeftAfter(r.cooldown[n], d)]]

\* the seconds since the cooldown of a channel was set, -1 when it never
\* was; counted up to twice the time a cooldown lasts
SinceAfter(t, d) ==
    IF t < 0 THEN t
    ELSE IF t + d > 2 * CooldownTTL THEN 2 * CooldownTTL ELSE t + d

Tick ==
    /\ redis' = Expire(redis, TickLen)
    /\ fill' = [n \in AllNames |->
                  IF fill[n] <= 0 THEN fill[n]
                  ELSE IF Left(fill[n]) = 0 THEN -1 ELSE Left(fill[n])]
    /\ since' = [n \in DOMAIN since |-> SinceAfter(since[n], TickLen)]
    /\ last' = [NoEvent EXCEPT !.kind = "tick"]
    /\ UNCHANGED <<mongo, joined, faults, lastPut, cmp>>

\* WaitLen seconds pass
Wait ==
    /\ redis' = Expire(redis, WaitLen)
    /\ fill' = [n \in AllNames |->
                  IF fill[n] <= 0 THEN fill[n]
                  ELSE IF LeftAfter(fill[n], WaitLen) = 0 THEN -1
                  ELSE LeftAfter(fill[n], WaitLen)]
    /\ since' = [n \in DOMAIN since |-> SinceAfter(since[n], WaitLen)]
    /\ last' = [NoEvent EXCEPT !.kind = "tick"]
    /\ UNCHANGED <<mongo, joined, faults, lastPut, cmp>>

\* one comparison with a UserRole on a side
CompareRoles ==
    \E op \in CompareOps, a \in Operands, b \in Operands :
        /\ a.cls = "UserRole" \/ b.cls = "UserRole"
        /\ cmp' = [op |-> op, a |-> a, b |-> b, res |-> Compare(op, a, b)]
        /\ UNCHANGED <<mongo, redis, joined, faults, last, lastPut, fill,
                       since>>

\* The decision specification: every role of sender, chat and commands,
\* both stores reachable.
Next ==
    \/ PubMsg(BadgeInputs, GateMessages, FALSE)
    \/ OwnMsg(FALSE)
    \/ Tick

Spec == Init /\ [][Next]_vars

\* The store specification: a moderator's writing commands, join and leave,
\* the passing of time, and runs during which a store cannot be reached.
NextStore ==
    \/ PubMsg(ModBadges, StoreMessages, TRUE)
    \/ OwnMsg(TRUE)
    \/ Tick

SpecStore == Init /\ [][NextStore]_vars

\* The allow-list specification: a moderator edits the allow list, anyone
\* chats, both stores reachable.
NextList ==
    \/ PubMsg(ListBadges, ListMessages, FALSE)
    \/ OwnMsg(FALSE)
    \/ Tick

SpecList == Init /\ [][NextList]_vars

\* The specification of the timed keys: notices, permits, chat and commands,
\* time passing in short steps, both stores reachable.
NextTimed ==
    \/ PubMsg(TimedBadges, TimedMessages, FALSE)
    \/ OwnMsg(FALSE)
    \/ PubNotice(FALSE)
    \/ Wait

SpecTimed == Init /\ [][NextTimed]_vars

\* The specification of the comparisons of UserRole.
NextRole == CompareRoles

SpecRole == Init /\ [][NextRole]_vars

(***************************************************************************)
(* Properties.                                                             *)
(***************************************************************************)
\* what getChannel gives for the channel n in this state, both stores
\* reachable, for one order of the cached allow list
Get(n, ord) == getChannel(Begin, AllUp, n, ord)

\* the cache holds something of the channel n: the hash of its scalar
\* fields or the set of its allow list; MongoDB holds its document
CacheHolds(n) == redis.config[n] # None \/ redis.allowlist[n] # {}
MongoHolds(n) == mongo[n] # None

Texts(out) == {out[i].text : i \in DOMAIN out}

\* C1: setChannel(c) followed by getChannel(c.name), with no write in
\* between, returns a Channel equal to c in every field (slash, dot,
\* subdomains, userlevel, reply and allow_list).
C1_PutThenGetReturnsPut ==
    \A n \in AllNames :
        lastPut[n] # None =>
            \A ord \in Orders(redis.allowlist[n]) : Get(n, ord).val = lastPut[n]

\* C2: in every reachable state getChannel(name), both stores answering,
\* does not raise and returns None exactly when neither the cache nor
\* MongoDB holds the channel; a message is answered by the part of the
\* channel exactly when neither holds it.
C2_AbsentIffInNeitherTier ==
    /\ \A n \in AllNames : \A ord \in Orders(redis.allowlist[n]) :
          /\ Get(n, ord).run.ok
          /\ Get(n, ord).val = None <=> (~CacheHolds(n) /\ ~MongoHolds(n))
    /\ (last.kind = "pubmsg" /\ last.f = AllUp) =>
          /\ last.gate # "lookup"
          /\ last.gate = "absent" <=>
                (~CacheHolds(last.target) /\ ~MongoHolds(last.target))

\* C3: once getChannel has filled the cache from MongoDB, every getChannel
\* of the next CacheTTL seconds (no write in between) is answered from the
\* cache, without a read of MongoDB, with the same Channel; after the CacheTTL
\* seconds the next getChannel reads MongoDB again.
C3_FilledCacheServesGets ==
    \A n \in AllNames : \A ord \in Orders(redis.allowlist[n]) :
        /\ fill[n] > 0 =>
              /\ Get(n, ord).run.reads = 0
              /\ Get(n, ord).val = getChannelMongo(mongo, n)
        /\ fill[n] = -1 => Get(n, ord).run.reads = 1

\* C4: when the write to MongoDB fails in the setChannel of a command, the
\* command raises and no confirmation of the change has been sent.
C4_FailedPutNotConfirmed ==
    (last.kind = "pubmsg" /\ last.gate = "command" /\ last.wfail
       /\ ~last.f.mongoWr)
    => (~last.ok /\ Texts(last.out) \cap ConfirmTexts = {})

\* C5: while Redis cannot be reached, getChannel still answers from MongoDB
\* and setChannel / delChannel still write MongoDB: no handler fails in its
\* lookup or in its write.
C5_CacheDownDegrades ==
    (last.kind \in {"pubmsg", "ownmsg"} /\ last.f = RedisDown)
    => (last.gate # "lookup" /\ ~last.wfail)

\* the four outcomes of a message in a moderated channel
NoAction == last.gate \in {"mod", "exempt", "check"} /\ last.out = <<>>
           /\ last.wr = 0
CommandExecuted == last.gate = "command"
DeleteEmitted ==
    /\ last.gate = "check" /\ last.wr = 0
    /\ \/ last.out = <<Privmsg(last.target, "/delete")>>
       \/ last.out = <<Privmsg(last.target, "/delete"),
                       Privmsg(last.target, "reply")>>
PartRequested ==
    last.gate = "absent" /\ last.out = <<PartReq(last.target)>>
    /\ ~last.changed

\* C6: every message in a moderated channel ends in one of: no action,
\* command executed, delete (and reply) emitted, part requested; without a
\* Channel for the target it is the part, and nothing else is sent or
\* written.
C6_FourOutcomes ==
    last.kind = "pubmsg" =>
        /\ last.ok
        /\ NoAction \/ CommandExecuted \/ DeleteEmitted \/ PartRequested
        /\ last.level = NoRole => PartRequested

\* C7: the gate of pubmsg_otherchannel.  A sender at or above MODERATOR is
\* never link-checked and gets no delete or reply, and only such a sender's
\* '!' message reaches chat_command; a sender at or above the channel's
\* userlevel and below MODERATOR causes nothing; exactly the senders below
\* both have extract_urls run on their message.
C7_RoleGate ==
    (last.kind = "pubmsg" /\ last.gate \notin {"lookup", "absent"}) =>
        /\ last.role >= MODERATOR =>
              /\ last.gate = (IF last.bang THEN "command" ELSE "mod")
              /\ Texts(last.out) \cap {"/delete", "reply"} = {}
        /\ last.gate = "command" => last.role >= MODERATOR
        /\ (last.role < MODERATOR /\ last.role >= last.level) =>
              (last.gate = "exempt" /\ last.out = <<>> /\ last.wr = 0)
        /\ last.gate = "check" <=>
              (last.role < MODERATOR /\ last.role < last.level)

\* a moderator's message with a link in it went unchecked
C7_Witness ==
    /\ last.kind = "pubmsg" /\ last.role = MODERATOR /\ last.link
    /\ last.gate = "mod" /\ last.out = <<>> /\ last.level = BROADCASTER

\* C8: with the default Channel but for userlevel = BROADCASTER (set by
\* "!links role BROADCASTER", which is confirmed), a VIP's message with a
\* link that the allow list does not cover is deleted.
C8_RoleCommandThenVipDeleted ==
    /\ (last.kind = "pubmsg" /\ last.cmd = "role" /\ last.ok) =>
          /\ "role set" \in Texts(last.out)
          /\ MongoHolds(last.target)
    /\ (last.kind = "pubmsg" /\ last.role = VIP /\ last.link
          /\ mongo[last.target] =
               Some(toDict([fromDefaults(last.target) EXCEPT
                              !.userlevel = BROADCASTER])))
       => (last.out # <<>> /\ last.out[1] = Privmsg(last.target, "/delete"))

\* the hosts of the candidates of a message
Hosts(message) ==
    {netloc(Chars(find_urls(message)[k])) : k \in DOMAIN find_urls(message)}
\* the plain entries of an allow list: neither wildcard nor regex
PlainEntries(l) ==
    {l[i] : i \in {j \in DOMAIN l :
                     Chars(l[j])[1] # "*" /\ ~IsRegexItem(l[j])}}

\* C9: for every Channel the store returns and every message, extract_urls
\* returns, and a host that counts as a link is left out of the result when
\* subdomains is set and the host contains a plain entry, and is in the
\* result when subdomains is not set and the host equals no entry.
C9_PlainEntryMatching ==
    \A n \in SpecNames : \A ord \in Orders(redis.allowlist[n]) :
        Get(n, ord).val # None =>
            \A m \in ChatMessages :
                LET c == Get(n, ord).val[1]
                    x == extract_urls(Get(n, ord).run, AllUp, m, c)
                IN  /\ x.run.ok
                    /\ \A h \in Hosts(m) :
                          /\ (c.subdomains /\ \E e \in PlainEntries(c.allow_list) :
                                                 IsSub(Chars(e), h))
                             => h \notin x.domains
                          /\ (~c.subdomains /\ c.allow_list # <<>>
                                /\ PlainEntries(c.allow_list) = Range(c.allow_list)
                                /\ HasSlash(m)
                                /\ \A e \in PlainEntries(c.allow_list) :
                                      Chars(e) # h)
                             => h \in x.domains

\* whether a candidate counts as a link, as the specification has it
CountsBySpec(c, m, u) ==
    IF c.slash THEN HasSlash(m)
    ELSE IF c.dot = Some(TRUE) THEN CountChar(".", netloc(u)) > 1
    ELSE TRUE

\* C10: for every Channel the store returns and every message, extract_urls
\* returns, and no candidate that does not count as a link (slash first,
\* then dot) has its host in the result.
C10_CountsAsLink ==
    \A n \in SpecNames : \A ord \in Orders(redis.allowlist[n]) :
        Get(n, ord).val # None =>
            \A m \in ChatMessages :
                LET c == Get(n, ord).val[1]
                    x == extract_urls(Get(n, ord).run, AllUp, m, c)
                    us == find_urls(m)
                IN  /\ x.run.ok
                    /\ \A k \in DOMAIN us :
                          ~CountsBySpec(c, m, Chars(us[k]))
                          => netloc(Chars(us[k])) \notin x.domains

\* the run of chat_command for the message m of a moderator on the Channel
\* that getChannel gives for n, and getChannel after that run
Command(n, ord, m) ==
    chat_command(Get(n, ord).run, AllUp, n, m, Get(n, ord).val[1]).run
GetAfter(run, n, ord) ==
    getChannel([Begin EXCEPT !.mongo = run.mongo, !.redis = run.redis],
               AllUp, n, ord)

NoDup(l) == \A i, j \in DOMAIN l : l[i] = l[j] => i = j
Count(l, x) == Cardinality({i \in DOMAIN l : l[i] = x})

\* C13: the allow list of a channel never holds an entry twice, in MongoDB,
\* in what getChannel returns and in what setChannel was given; and after
\* "!links allow|add x ..." every x named, once or more, is in the list that
\* getChannel returns exactly once.
C13_AllowListHasNoDuplicates ==
    \A n \in SpecNames :
        /\ mongo[n] # None => NoDup(mongo[n][1].allow_list)
        /\ lastPut[n] # None => NoDup(lastPut[n][1].allow_list)
        /\ \A ord \in Orders(redis.allowlist[n]) :
              Get(n, ord).val # None =>
                 /\ NoDup(Get(n, ord).val[1].allow_list)
                 /\ \A m \in AllowMessages :
                      LET r == Command(n, ord, m) IN
                      /\ r.ok /\ r.mongo[n] # None
                      /\ \A k \in 3..Len(m) :
                            /\ Count(r.mongo[n][1].allow_list, m[k]) = 1
                            /\ \A o2 \in Orders(r.redis.allowlist[n]) :
                                  Count(GetAfter(r, n, o2).val[1].allow_list,
                                        m[k]) = 1

\* "!links allow" named entries that the list already had: nothing changed
C13_Witness ==
    /\ last.kind = "pubmsg" /\ last.cmd = "allow" /\ last.ok /\ last.wr = 1
    /\ mongo[last.target] # None
    /\ Len(mongo[last.target][1].allow_list) >= 2
    /\ ~last.changed

\* the regex entries of the allow list l that run out of time on a candidate
\* of the message m
TimedOut(l, m) ==
    {l[i] : i \in {j \in DOMAIN l :
                     /\ IsRegexItem(l[j])
                     /\ \E k \in DOMAIN find_urls(m) :
                           RegexRun(Strip(l[j]), Chars(find_urls(m)[k]))
                             = "timeout"}}

\* C11: when a regex entry of the allow list runs out of time on a candidate
\* of a message, extract_urls returns; the entry is then gone from the allow
\* list in MongoDB and in Redis, every other entry is still there, the
\* removal was reported to the channel, and the entry did not allow the
\* candidate.
C11_RegexTimeoutEvictsEntry ==
    \A n \in SpecNames : \A ord \in Orders(redis.allowlist[n]) :
        Get(n, ord).val # None =>
            \A m \in ChatMessages :
                LET c == Get(n, ord).val[1]
                    gone == TimedOut(c.allow_list, m)
                    x == extract_urls(Get(n, ord).run, AllUp, m, c)
                IN  gone # {} =>
                      /\ x.run.ok
                      /\ "regex removed" \in Texts(x.run.out)
                      /\ x.run.mongo[n] # None
                      /\ Range(x.run.mongo[n][1].allow_list)
                           = Range(c.allow_list) \ gone
                      /\ x.run.redis.allowlist[n] = Range(c.allow_list) \ gone
                      /\ PlainEntries(c.allow_list) = {} => x.domains = Hosts(m)

\* the cooldown of the channel n was set less than CooldownTTL seconds ago
InCooldown(n) == since[n] >= 0 /\ since[n] < CooldownTTL

\* C12: a send_privmsg to a channel emits nothing while less than
\* CooldownTTL seconds have passed since setChannelCooldown for it, and emits
\* the message otherwise; so a handler sends nothing to a channel in
\* cooldown, a command is answered again once the time has passed, and the
\* cooldown of one channel does not stop the answer in another.
C12_CooldownSuppressesSends ==
    /\ \A n \in DOMAIN since :
          LET r == send_privmsg(Begin, AllUp, n, "x") IN
          /\ r.ok
          /\ InCooldown(n) => r.out = <<>>
          /\ ~InCooldown(n) => r.out = <<Privmsg(n, "x")>>
    /\ (last.kind \in {"pubmsg", "notice"} /\ InCooldown(last.target)) =>
          \A i \in DOMAIN last.out : last.out[i].op # "privmsg"
    /\ (last.kind = "pubmsg" /\ last.cmd \in {"list", "permit", "allow"}
          /\ ~InCooldown(last.target)) =>
          /\ last.out # <<>>
          /\ \A i \in DOMAIN last.out :
                last.out[i].op = "privmsg" /\ last.out[i].target = last.target
    /\ (last.kind = "ownmsg" /\ last.cmd = "join" /\ last.wr = 1) =>
          last.out = <<JoinReq(last.target), Privmsg(Username, "joined")>>

\* a moderator's command went unanswered 200 seconds into the cooldown
C12_Witness ==
    /\ last.kind = "pubmsg" /\ last.cmd = "list" /\ last.ok
    /\ last.out = <<>>
    /\ since[last.target] > 0 /\ InCooldown(last.target)

\* a store holds something of the channel n
Present(n) == CacheHolds(n) \/ MongoHolds(n)

\* C14: after "!leave" from the owner of a channel that had a Channel, a part
\* of the channel was requested, neither Redis nor MongoDB holds the channel
\* and getChannel returns None; and a channel that no store holds comes to
\* be held again only by a "!join" of its owner.
C14_LeaveDeletesChannel ==
    /\ [](  (last.kind = "ownmsg" /\ last.cmd = "leave"
               /\ last.level # NoRole)
            => /\ last.ok
               /\ last.out = <<PartReq(last.target)>>
               /\ ~Present(last.target)
               /\ Get(last.target, <<>>).val = None )
    /\ [][ \A n \in AllNames :
              (~Present(n) /\ Present(n)')
              => (last'.kind = "ownmsg" /\ last'.cmd = "join"
                    /\ last'.target = n) ]_vars

\* the owner of a channel with a Channel left, and the channel is gone
C14_Witness ==
    /\ last.kind = "ownmsg" /\ last.cmd = "leave" /\ last.level # NoRole
    /\ last.out = <<PartReq(last.target)>> /\ last.changed
    /\ ~Present(last.target)

\* the default Channel of the specification: Channel.fromDefaults with the
\* dot option set
DefaultConfig(n) == [fromDefaults(n) EXCEPT !.dot = Some(TRUE)]

\* C15: "!join" from s when no Channel named s exists leaves a Channel that
\* getChannel(s) returns with slash, dot and subdomains set, userlevel VIP,
\* reply "default" and an empty allow list; "!join" when one exists writes
\* nothing.
C15_JoinCreatesDefault ==
    (last.kind = "ownmsg" /\ last.cmd = "join") =>
        /\ last.ok
        /\ last.level = NoRole =>
              Get(last.target, <<>>).val = Some(DefaultConfig(last.target))
        /\ last.level # NoRole => last.wr = 0

\* C16: after a notice of the leave class for a channel that had a Channel,
\* a part of the channel was requested, no store holds the channel and
\* getChannel returns None.
C16_LeaveNoticeDeletesChannel ==
    (last.kind = "notice" /\ last.cmd = "leave" /\ last.level # NoRole) =>
        /\ last.ok
        /\ last.out = <<PartReq(last.target)>>
        /\ ~Present(last.target)
        /\ Get(last.target, <<>>).val = None

\* the permit of the user u in the channel n has not run out (the senders
\* below MODERATOR of the model are the one user u)
Permitted(n, u) == redis.permit[<<n, u>>] > 0

\* C17: a message of the user u, below the exempt role, with a link that the
\* (empty) allow list does not cover: while a permit "!permit u" of the last
\* PermitTTL seconds stands, the handler returns and nothing is deleted;
\* without one, the message is deleted.
C17_PermitBypassesLinkCheck ==
    (last.kind = "pubmsg" /\ last.gate = "check" /\ last.link
       /\ ~InCooldown(last.target)
       /\ mongo[last.target] # None
       /\ mongo[last.target][1].allow_list = <<>>)
    => /\ last.ok
       /\ Permitted(last.target, "u") => last.out = <<>>
       /\ ~Permitted(last.target, "u") =>
             (last.out # <<>> /\ last.out[1] = Privmsg(last.target, "/delete"))

\* C18: "!links test <message>" from a moderator, for every Channel the store
\* returns and every test message: the command returns, MongoDB and Redis are
\* as getChannel left them, and the one thing sent is the answer whether the
\* message would have been deleted.
C18_TestIsDryRun ==
    \A n \in SpecNames : \A ord \in Orders(redis.allowlist[n]) :
        Get(n, ord).val # None =>
            \A m \in TestMessages :
                LET r == Command(n, ord, m) IN
                /\ r.ok
                /\ r.mongo = mongo /\ r.redis = Get(n, ord).run.redis
                /\ r.wr = 0
                /\ r.out \in {<<Privmsg(n, "would delete")>>,
                              <<Privmsg(n, "would not delete")>>}

\* the order USER < SUBSCRIBER < VIP < MODERATOR < BROADCASTER under op
Ordered(op, x, y) ==
    CASE op = "<" -> x < y [] op = "<=" -> x <= y [] op = ">" -> x > y
      [] op = ">=" -> x >= y [] OTHER -> x = y

\* C19: a comparison of two UserRoles, under <, <=, >, >= and ==, gives what
\* the order USER < SUBSCRIBER < VIP < MODERATOR < BROADCASTER gives, and a
\* comparison of a UserRole with a value that is no UserRole raises.
C19_RoleOrderAndCrossType ==
    cmp.op # "" =>
        IF cmp.a.cls = "UserRole" /\ cmp.b.cls = "UserRole"
        THEN cmp.res = BoolStr(Ordered(cmp.op, cmp.a.value, cmp.b.value))
        ELSE cmp.res = "TypeError"

\* the setter commands, and the Channel c with the one field that the
\* command m names set to its new value
SetterMessages ==
    {<<"!links", "slash", "no">>, <<"!links", "dot", "yes">>,
     <<"!links", "subdomains", "false">>,
     <<"!links", "role", "BROADCASTER">>, <<"!links", "reply", "hello">>}
Expected(c, m) ==
    CASE m[2] = "slash" -> [c EXCEPT !.slash = FALSE]
      [] m[2] = "dot" -> [c EXCEPT !.dot = Some(TRUE)]
      [] m[2] = "subdomains" -> [c EXCEPT !.subdomains = FALSE]
      [] m[2] = "role" -> [c EXCEPT !.userlevel = BROADCASTER]
      [] OTHER -> [c EXCEPT !.reply = "hello"]

\* two Channels with the same fields, the allow lists compared as sets
SameConfig(c, d) ==
    /\ c.name = d.name /\ c.slash = d.slash /\ c.dot = d.dot
    /\ c.subdomains = d.subdomains /\ c.userlevel = d.userlevel
    /\ c.reply = d.reply
    /\ Range(c.allow_list) = Range(d.allow_list)

\* C20: after a setter command of a moderator on the Channel c that
\* getChannel gives, getChannel returns c with the field the command names
\* at its new value and every other field as in c.
C20_SetterChangesOneField ==
    \A n \in SpecNames : \A ord \in Orders(redis.allowlist[n]) :
        Get(n, ord).val # None =>
            \A m \in SetterMessages :
                LET c == Get(n, ord).val[1]
                    r == Command(n, ord, m)
                IN  /\ r.ok
                    /\ \A o2 \in Orders(r.redis.allowlist[n]) :
                          /\ GetAfter(r, n, o2).val # None
                          /\ SameConfig(GetAfter(r, n, o2).val[1],
                                        Expected(c, m))

(***************************************************************************)
(* C21: the order of the delete and the reply.                             *)
(***************************************************************************)
\* the places in out of the messages with the text t
Places(out, t) ==
    {i \in DOMAIN out : out[i].op = "privmsg" /\ out[i].text = t}

\* C21: for every Channel the store returns whose exempt role is above USER
\* and every message of a sender without badges: a reply is only sent after
\* a delete of that message, and when the message has a link that counts
\* (slash) and the allow list is empty, the handler sends the delete first
\* and then the reply, and the delete alone when the reply is "off".
C21_DeleteBeforeReply ==
    \A n \in SpecNames : \A ord \in Orders(redis.allowlist[n]) :
        (Get(n, ord).val # None
           /\ RoleGt(Get(n, ord).val[1].userlevel, USER)) =>
            \A m \in ChatMessages :
                LET c == Get(n, ord).val[1]
                    h == pubmsg_otherchannel(AllUp, n, None, m, ord)
                    out == h.run.out
                IN  /\ \A i \in Places(out, "reply") :
                          \E j \in Places(out, "/delete") : j < i
                    /\ (c.allow_list = <<>> /\ c.slash /\ HasSlash(m)
                          /\ find_urls(m) # <<>>)
                       => /\ h.run.ok
                          /\ out = IF get_reply(c) = None
                                   THEN <<Privmsg(n, "/delete")>>
                                   ELSE <<Privmsg(n, "/delete"),
                                          Privmsg(n, "reply")>>

(***************************************************************************)
(* The handlers as actions over chosen channels, inputs and store faults.  *)
(***************************************************************************)
\* the store conditions a handler run may meet: those of Fs while fewer
\* than MaxFaults runs have met one, and both stores reachable
FaultsOf(Fs) == IF faults < MaxFaults THEN Fs \cup {AllUp} ELSE {AllUp}

\* on_pubmsg for one of the channels Ns, other than the bot's own
PubMsgOf(Ns, Bs, Ms, Fs) ==
    \E n \in Ns, badges \in Bs, args \in Ms, f \in FaultsOf(Fs) :
      \E ord \in Orders(redis.allowlist[n]) :
        /\ Commit(pubmsg_otherchannel(f, n, badges, args, ord), "pubmsg", n, f,
                  args)
        /\ UNCHANGED joined

\* on_pubmsg for the bot's own channel, from one of the senders Ns
OwnMsgOf(Ns, Ts, Fs) ==
    \E nick \in Ns, text \in Ts, f \in FaultsOf(Fs) :
      \E ord \in Orders(redis.allowlist[nick]) :
        /\ Commit(pubmsg_ownchannel(f, nick, text, ord), "ownmsg", nick, f,
                  <<text>>)
        /\ UNCHANGED joined

\* on_pubnotice for one of the channels Ns
PubNoticeOf(Ns, Fs) ==
    \E n \in Ns, class \in NoticeClasses, f \in FaultsOf(Fs) :
        /\ Commit(on_pubnotice(f, n, class, <<>>), "notice", n, f, <<class>>)
        /\ UNCHANGED joined

\* The cache specification: get, put and delete through the handlers,
\* time passing, runs during which Redis cannot be reached; MongoDB always
\* answers.
CacheBadges == {None, Some(<<"moderator">>)}
\* commands of a moderator that no case of chat_command matches: a
\* subcommand that is not one, a setter without its argument or with a value
\* that is not one, a permit for no user or for two
MalformedMessages ==
    {<<"!links">>, <<"!links", "foo">>, <<"!x">>,
     <<"!links", "allow">>, <<"!links", "deny">>, <<"!links", "test">>,
     <<"!links", "slash", "maybe">>, <<"!links", "dot", "maybe">>,
     <<"!links", "subdomains", "maybe">>, <<"!links", "slash", "yes", "no">>,
     <<"!links", "role", "admin">>, <<"!links", "role", "vip", "user">>,
     <<"!links", "list", "all">>,
     <<"!permit">>, <<"!permit", "u", "v">>}

CacheMessages ==
    {<<"hi">>, <<"h://s.e.c/p">>, <<"!links", "allow", "e.c">>,
     <<"!links", "deny", "e.c">>, <<"!links", "role", "user">>,
     <<"!permit", "u">>} \cup MalformedMessages

NextCache ==
    \/ PubMsgOf(SpecNames, CacheBadges, CacheMessages, {RedisDown})
    \/ OwnMsgOf(SpecNames, OwnTexts, {RedisDown})
    \/ PubNoticeOf(SpecNames, {RedisDown})
    \/ Tick

SpecCache == Init /\ [][NextCache]_vars

PairBadges == {None, Some(<<"moderator">>)}
PairMessages ==
    {<<"h://s.e.c/p">>, <<"!links", "reply", "off">>, <<"!permit", "u">>,
     <<"!links", "slash", "maybe">>}
PairOwnTexts == OwnTexts \cup {"!links allow e.c", "h://s.e.c/p"}
PairFaults == {MongoWriteDown, RedisDown}

\* Redis without a key
NoKeys ==
    [config |-> [n \in AllNames |-> None],
     allowlist |-> [n \in AllNames |-> {}],
     cttl |-> [n \in AllNames |-> 0],
     attl |-> [n \in AllNames |-> 0],
     permit |-> [k \in AllNames \X Users |-> 0],
     cooldown |-> [n \in AllNames \cup {Username} |-> 0]]

InitPair ==
    /\ mongo = setChannelMongo([n \in AllNames |-> None], fromDefaults("b"))
    /\ redis = Expire([setChannelRedis(NoKeys, fromDefaults("b")) EXCEPT
                         !.permit[<<"b", "u">>] = PermitTTL,
                         !.cooldown["b"] = CooldownTTL], WaitLen)
    /\ joined = {"b"}
    /\ faults = 0
    /\ last = NoEvent
    /\ lastPut = [n \in AllNames |->
                    IF n = "b" THEN Some(fromDefaults("b")) ELSE None]
    /\ fill = [n \in AllNames |-> 0]
    /\ since = [n \in AllNames \cup {Username} |->
                  IF n = "b" THEN WaitLen ELSE -1]
    /\ cmp = NoCompare

NextPair ==
    \/ PubMsgOf({"a"}, PairBadges, PairMessages, PairFaults)
    \/ OwnMsgOf(AllNames, PairOwnTexts, PairFaults)
    \/ PubNoticeOf({"a"}, PairFaults)

SpecPair == InitPair /\ [][NextPair]_vars

\* what the two stores hold of the channel n: the document, the cached
\* keys and their times, the permits and the cooldown
Held(m, r, n) ==
    [doc |-> m[n], config |-> r.config[n], allowlist |-> r.allowlist[n],
     cttl |-> r.cttl[n], attl |-> r.attl[n],
     permit |-> [u \in Users |-> r.permit[<<n, u>>]],
     cooldown |-> r.cooldown[n]]

\* C23: a message in the bot's own channel from the sender s hands to the
\* connection nothing but a join or part of s and the "joined" answer in
\* the own channel (no delete, no reply to a link, no answer of a command);
\* a text other than !join and !leave changes nothing at all; and whatever
\* the message, what the stores hold of every channel other than s stays
\* as it was.
C23_OwnChannelOnlyJoinLeave ==
    /\ [](last.kind = "ownmsg" =>
            /\ \A i \in DOMAIN last.out :
                  last.out[i] \in {JoinReq(last.target), PartReq(last.target),
                                   Privmsg(Username, "joined")}
            /\ last.cmd = "none" => (last.out = <<>> /\ ~last.changed))
    /\ [][last'.kind = "ownmsg" =>
            \A n \in AllNames \ {last'.target} :
                Held(mongo', redis', n) = Held(mongo, redis, n)]_vars

\* the owner of one channel has left through the own channel while the
\* other channel is in both stores
C23_Witness ==
    /\ last.kind = "ownmsg" /\ last.cmd = "leave" /\ last.ok /\ last.wr > 0
    /\ \E n \in AllNames \ {last.target} : MongoHolds(n) /\ CacheHolds(n)

\* what the next message m with the tag badges in the channel n comes to
\* on the stores mo and re, both reachable: the branch taken, what is handed
\* to the connection, and what the stores hold of n afterwards
Outcome(mo, re, n, badges, m, ord) ==
    LET h == pubmsg_otherchannelOn([Begin EXCEPT !.mongo = mo, !.redis = re],
                                   AllUp, n, badges, m, ord) IN
    [gate |-> h.gate, cmd |-> h.cmd, ok |-> h.run.ok, out |-> h.run.out,
     held |-> Held(h.run.mongo, h.run.redis, n)]

\* the next messages for the other channel: a link from a sender without
\* badges, a setter and a permit from a moderator
NextMessages ==
    {[badges |-> None, args |-> <<"h://s.e.c/p">>],
     [badges |-> Some(<<"moderator">>), args |-> <<"!links", "reply", "off">>],
     [badges |-> Some(<<"moderator">>), args |-> <<"!permit", "u">>]}

\* C24: a handler run for the channel A, whether it returns or raises
\* (store unreachable, exception in the link check, malformed command),
\* leaves what both stores hold of every other channel B (document, cached
\* keys, permits, cooldown) as it was, and every next message for B comes to
\* what it would have come to before the run.
C24_OtherChannelsUntouched ==
    [][last'.kind \in {"pubmsg", "ownmsg", "notice"} =>
         \A B \in AllNames \ {last'.target} :
            /\ Held(mongo', redis', B) = Held(mongo, redis, B)
            /\ \A x \in NextMessages :
                 \A ord \in Orders(redis.allowlist[B]) :
                    Outcome(mongo', redis', B, x.badges, x.args, ord)
                      = Outcome(mongo, redis, B, x.badges, x.args, ord)
      ]_vars

\* a handler for channel a has raised after it wrote to a store, channel b
\* being in both stores with a permit and a cooldown
C24_Witness ==
    /\ last.kind = "pubmsg" /\ last.target = "a" /\ ~last.ok /\ last.changed
    /\ MongoHolds("b") /\ CacheHolds("b")
    /\ redis.permit[<<"b", "u">>] > 0 /\ redis.cooldown["b"] > 0

(***************************************************************************)
(* The reconciliation of the joined channels.                              *)
(***************************************************************************)
\* GhirahimDB.getChannels: the names of the documents in MongoDB
getChannels(m) == {n \in AllNames : m[n] # None}

\* numpy gives its results as sorted arrays: the order of the names, and
\* the sorted sequence of a set of names
Rank(n) == CASE n = "a" -> 1 [] n = "b" -> 2 [] OTHER -> 3
SortedSeq(S) ==
    CHOOSE s \in [1..Cardinality(S) -> S] :
        /\ \A i, j \in DOMAIN s : i < j => Rank(s[i]) < Rank(s[j])
        /\ \A x \in S : \E i \in DOMAIN s : s[i] = x

\* the run after c.join / c.part for each name of the sequence
JoinEach(run, names) ==
    IF ~run.ok THEN run
    ELSE [run EXCEPT !.out = @ \o [i \in DOMAIN names |-> JoinReq(names[i])]]
PartEach(run, names) ==
    IF ~run.ok THEN run
    ELSE [run EXCEPT !.out = @ \o [i \in DOMAIN names |-> PartReq(names[i])]]

\* check_channels that leaves the bot's own channel out of the channels
\* it wants to be in
check_channelsListed(run, f) ==
    IF ~f.mongoOk THEN Raise(run)
    ELSE LET channels == getChannels(run.mongo)
             to_join == SortedSeq(channels \ joined)
             to_part == SortedSeq(joined \ channels)
         IN  PartEach(JoinEach(run, to_join), to_part)

\* GhirahimBot.check_channels
check_channels(run, f) ==
    IF ~f.mongoOk THEN Raise(run)
    ELSE LET channels == getChannels(run.mongo) \cup {Username}
             to_join == SortedSeq(channels \ joined)
             to_part == SortedSeq(joined \ channels)
         IN  PartEach(JoinEach(run, to_join), to_part)

\* the scheduled call of check_channels (5 seconds after the welcome, then
\* every hour); last.out holds the requests handed to the connection
CheckChannels ==
    \E f \in FaultsOf({MongoDown}) :
        LET run == check_channels(Begin, f) IN
        /\ last' = [NoEvent EXCEPT !.kind = "check", !.target = Username,
                                   !.ok = run.ok, !.out = run.out, !.f = f]
        /\ faults' = IF f = AllUp THEN faults ELSE faults + 1
        /\ UNCHANGED <<mongo, redis, joined, lastPut, fill, since, cmp>>

\* the sequence without its i-th element
Without(s, i) == SubSeq(s, 1, i - 1) \o SubSeq(s, i + 1, Len(s))

\* on_join for the JOIN of the bot that answers a request of the last run
JoinConfirmed ==
    \E i \in DOMAIN last.out :
        /\ last.out[i].op = "join"
        /\ joined' = joined \cup {last.out[i].target}
        /\ last' = [last EXCEPT !.kind = "join", !.target = last.out[i].target,
                                !.out = Without(@, i)]
        /\ UNCHANGED <<mongo, redis, faults, lastPut, fill, since, cmp>>

\* on_part for the PART of the bot that answers a request of the last run
PartConfirmed ==
    \E i \in DOMAIN last.out :
        /\ last.out[i].op = "part"
        /\ last.out[i].target \in joined
        /\ joined' = joined \ {last.out[i].target}
        /\ last' = [last EXCEPT !.kind = "part", !.target = last.out[i].target,
                                !.out = Without(@, i)]
        /\ UNCHANGED <<mongo, redis, faults, lastPut, fill, since, cmp>>

\* The reconciliation specification: MongoDB holds any of the channels and
\* does not change, the bot is in any of the channels, the cache is empty;
\* check_channels runs again and again, MongoDB unreachable during at most
\* MaxFaults of the runs, and the server confirms the requests.
InitRecon ==
    /\ mongo \in [AllNames -> {None} \cup
                     {Some(toDict(fromDefaults(n))) : n \in AllNames}]
    /\ \A n \in AllNames : mongo[n] # None => mongo[n][1].name = n
    /\ redis = NoKeys
    /\ joined \in SUBSET (AllNames \cup {Username})
    /\ faults = 0
    /\ last = NoEvent
    /\ lastPut = [n \in AllNames |-> None]
    /\ fill = [n \in AllNames |-> 0]
    /\ since = [n \in AllNames \cup {Username} |-> -1]
    /\ cmp = NoCompare

NextRecon ==
    \/ CheckChannels
    \/ JoinConfirmed
    \/ PartConfirmed

SpecRecon ==
    /\ InitRecon /\ [][NextRecon]_vars
    /\ WF_vars(CheckChannels) /\ WF_vars(JoinConfirmed)
    /\ WF_vars(PartConfirmed)

\* the channels the bot is to be in
Wanted == getChannels(mongo) \cup {Username}

\* C25: every run of check_channels that reaches MongoDB requests a join of
\* each wanted channel (those of MongoDB and the bot's own) the bot is not
\* in and a part of each channel it is in and does not want, each once and
\* nothing else, never a part of its own channel; and with MongoDB
\* unchanged and every request confirmed, the bot is in the end in the
\* wanted channels and stays there.
C25_ReconciliationConverges ==
    /\ [][(last'.kind = "check" /\ last'.f = AllUp) =>
            /\ last'.ok
            /\ Range(last'.out) =
                  {JoinReq(n) : n \in Wanted \ joined} \cup
                  {PartReq(n) : n \in joined \ Wanted}
            /\ Len(last'.out) = Cardinality(Range(last'.out))
            /\ PartReq(Username) \notin Range(last'.out)]_vars
    /\ <>[](joined = Wanted)

\* the bot has come to be in channel a, which MongoDB holds, and in its own,
\* its last step the confirmed part of channel b, which MongoDB lacks
C25_Witness ==
    /\ MongoHolds("a") /\ ~MongoHolds("b")
    /\ last.kind = "part" /\ last.target = "b" /\ last.out = <<>>
    /\ joined = {"a", Username}

(***************************************************************************)
(* C26: commands that no case matches.                                     *)
(***************************************************************************)
\* C26: for every Channel the store returns and every malformed command of
\* a moderator, chat_command matches no case and returns the run as
\* getChannel left it: no write to MongoDB or Redis, no permit, nothing
\* sent.  And a handler run that ended in no case has sent nothing, called
\* no setChannel or delChannel, and changed at most the cache, by the fill
\* of getChannel.
C26_MalformedCommandIgnored ==
    /\ \A n \in SpecNames : \A ord \in Orders(redis.allowlist[n]) :
          Get(n, ord).val # None =>
             \A m \in MalformedMessages :
                LET g == Get(n, ord)
                    c == chat_command(g.run, AllUp, n, m, g.val[1])
                    h == pubmsg_otherchannel(AllUp, n, Some(<<"moderator">>),
                                             m, ord)
                IN  /\ c.cmd = "none"
                    /\ c.run = g.run
                    /\ h.gate = "command" /\ h.run = g.run
                    /\ h.run.ok /\ h.run.out = <<>>
                    /\ h.run.mongo = mongo
                    /\ h.run.redis.permit = redis.permit
                    /\ h.run.redis.cooldown = redis.cooldown
    /\ (last.kind = "pubmsg" /\ last.gate = "command" /\ last.cmd = "none")
       => /\ last.ok /\ last.out = <<>> /\ last.wr = 0
          /\ last.changed => last.reads = 1

\* a moderator's malformed command has been handled in a channel whose
\* allow list has an entry
C26_Witness ==
    /\ last.kind = "pubmsg" /\ last.gate = "command" /\ last.cmd = "none"
    /\ last.bang /\ last.role = MODERATOR
    /\ mongo[last.target] # None
    /\ mongo[last.target][1].allow_list # <<>>

====
